---- MODULE Spec2Model ----
(***************************************************************************)
(* Model of relay_server.py: a process-wide map `rooms` from room code to  *)
(* a room dict {"commands": [...]}, served by four Flask handlers that run *)
(* as concurrent request threads against that map with no lock.            *)
(*                                                                         *)
(* Python objects have identity: a handler that has loaded a room dict or  *)
(* a command list keeps a reference to that object even after the map (or  *)
(* the dict) has been re-bound to another one.  The model therefore keeps  *)
(* a heap: `dicts` (room dict objects) and `lists` (list objects), both    *)
(* indexed by allocation order.  Every read or write of a shared object    *)
(* (the map, a room dict, a list) is one step of the handler.              *)
(***************************************************************************)
EXTENDS Integers, Sequences, FiniteSets, TLC

\* Bounds of the model.
MaxInFlight == 2   \* requests being served at the same time (one thread each)
NCodes == 2        \* size of the room code space (4 hex characters in the code)
MaxReq == 4        \* requests the threaded server takes
MaxReqSeq == 5     \* requests the server takes when it serves them one at a time
MaxReqOne == 5     \* requests the threaded server takes when all name one code
IdleTimeout == 2   \* idle timeout of the expiry policy, in clock ticks

Codes == 1..NCodes
Bodies == {"command", "nocommand"}   \* request.json has a "command" key, or not

VARIABLES
    rooms,   \* the global map: room code -> room dict object (index in dicts)
    dicts,   \* heap of room dicts: dicts[d] is the list object under "commands"
    lists,   \* heap of lists: lists[l] is the sequence of commands in list l
    reqs,    \* the requests in flight: handler, position in it, and its locals
    hosts,   \* history: the room codes returned by Host, in order
    sends,   \* history: one record per Send request that passed the existence check
    recvs,   \* history: one record per Receive request that passed the existence check
    replies, \* history: the responses to Join, and the "Room not found" responses
    fresh,   \* per code: commands whose Send completed since the last Receive started
    idle     \* per code: clock ticks since the room's creation or last Send, Receive or Join

vars == <<rooms, dicts, lists, reqs, hosts, sends, recvs, replies, fresh, idle>>

Init ==
    /\ rooms = << >>
    /\ dicts = << >>
    /\ lists = << >>
    /\ reqs = {}
    /\ hosts = << >>
    /\ sends = << >>
    /\ recvs = << >>
    /\ replies = << >>
    /\ fresh = [r \in Codes |-> << >>]
    /\ idle = [r \in Codes |-> 0]

\* `room_code in rooms`
RoomExists(r) == r \in DOMAIN rooms

\* rooms[room_code]
LoadAnyRoom(r) == rooms[CHOOSE x \in DOMAIN rooms : TRUE]
LoadRoom(r) == rooms[r]

\* room["commands"]
LoadCommands(d) == dicts[d]

\* rooms[room_code] = <dict d>
StoreRoom(r, d) == [x \in (DOMAIN rooms) \cup {r} |-> IF x = r THEN d ELSE rooms[x]]

\* list.append(command)
PrependCmd(q, c) == <<c>> \o q
AppendCmd(q, c) == Append(q, c)

\* The pending command sequence of the room a code is bound to, in a given heap.
PendingIn(rm, ds, ls, r) == ls[ds[rm[r]]]
Pending(r) == PendingIn(rooms, dicts, lists, r)

Reply(op, r, out) == replies' = Append(replies, [op |-> op, code |-> r, out |-> out])

\* Activity on the room of code r: its idle time starts again.
Touch(r) == idle' = [idle EXCEPT ![r] = 0]

\* A request in flight: the handler of request number id, at position p.
Req(op, id, p, r, d, l, d2) ==
    [op |-> op, id |-> id, pc |-> p, code |-> r, d |-> d, l |-> l, d2 |-> d2]

\* Request q moves on to q2, or ends.
Move(q, q2) == reqs' = (reqs \ {q}) \cup {q2}
End(q) == reqs' = reqs \ {q}

----
\* POST /host.  The code c is what str(uuid.uuid4())[:4] drew; nothing looks
\* whether c is already a key of rooms.  The store is the handler's only access
\* to shared state, and the code it returns is fixed by then: one step.
HostSession(c) ==
    /\ lists' = Append(lists, << >>)
    /\ dicts' = Append(dicts, Len(lists) + 1)
    /\ rooms' = StoreRoom(c, Len(dicts) + 1)
    /\ hosts' = Append(hosts, c)
    /\ Touch(c)
    /\ UNCHANGED <<reqs, sends, recvs, replies, fresh>>

----
\* POST /join/<room_code>: one look at rooms, and the response
JoinOutcomeAlways(r) == "joined"
JoinOutcome(r) == IF RoomExists(r) THEN "joined" ELSE "notfound"

JoinRoomCreates(r) ==
    /\ Reply("join", r, "joined")
    /\ IF RoomExists(r)
       THEN UNCHANGED <<rooms, dicts, lists>>
       ELSE /\ lists' = Append(lists, << >>)
            /\ dicts' = Append(dicts, Len(lists) + 1)
            /\ rooms' = StoreRoom(r, Len(dicts) + 1)
    /\ Touch(r)
    /\ UNCHANGED <<reqs, hosts, sends, recvs, fresh>>
JoinRoom(r) ==
    /\ Reply("join", r, JoinOutcome(r))
    /\ IF RoomExists(r) THEN Touch(r) ELSE UNCHANGED idle
    /\ UNCHANGED <<rooms, dicts, lists, reqs, hosts, sends, recvs, fresh>>

----
\* POST /send/<room_code> with rooms.setdefault in place of the existence check
SendCheckCreates(r, b) ==
    /\ IF RoomExists(r)
       THEN /\ sends' = Append(sends, [code |-> r, room |-> rooms[r], body |-> b,
                                       out |-> "pending",
                                       prior |-> {k \in DOMAIN sends :
                                                     /\ sends[k].code = r
                                                     /\ sends[k].out = "ok"}])
            /\ recvs' = [j \in DOMAIN recvs |->
                           IF recvs[j].code = r /\ recvs[j].out = "pending"
                           THEN [recvs[j] EXCEPT !.during = @ \cup {Len(sends) + 1}]
                           ELSE recvs[j]]
            /\ reqs' = reqs \cup {Req("send", Len(sends) + 1, "s_room", r, 0, 0, 0)}
            /\ UNCHANGED <<rooms, dicts, lists, replies>>
       ELSE /\ lists' = Append(lists, << >>)
            /\ dicts' = Append(dicts, Len(lists) + 1)
            /\ rooms' = StoreRoom(r, Len(dicts) + 1)
            /\ Reply("send", r, "notfound")
            /\ UNCHANGED <<reqs, sends, recvs>>
    /\ UNCHANGED <<hosts, fresh, idle>>

\* POST /send/<room_code>: the existence check.  The history notes the room
\* object the code was bound to, the Sends on the code that had completed
\* when this one started (prior), and the Receives this Send overlaps.
SendCheck(r, b) ==
    /\ IF RoomExists(r)
       THEN /\ sends' = Append(sends, [code |-> r, room |-> rooms[r], body |-> b,
                                       out |-> "pending",
                                       prior |-> {k \in DOMAIN sends :
                                                     /\ sends[k].code = r
                                                     /\ sends[k].out = "ok"}])
            /\ recvs' = [j \in DOMAIN recvs |->
                           IF recvs[j].code = r /\ recvs[j].out = "pending"
                           THEN [recvs[j] EXCEPT !.during = @ \cup {Len(sends) + 1}]
                           ELSE recvs[j]]
            /\ reqs' = reqs \cup {Req("send", Len(sends) + 1, "s_room", r, 0, 0, 0)}
            /\ UNCHANGED replies
       ELSE /\ Reply("send", r, "notfound")
            /\ UNCHANGED <<reqs, sends, recvs>>
    /\ UNCHANGED <<rooms, dicts, lists, hosts, fresh, idle>>

\* rooms[room_code]
SendLoadRoom(q) ==
    /\ q.pc = "s_room"
    /\ Move(q, [q EXCEPT !.pc = "s_list", !.d = LoadRoom(q.code)])
    /\ UNCHANGED <<rooms, dicts, lists, hosts, sends, recvs, replies, fresh, idle>>

\* rooms[room_code]["commands"]
SendLoadList(q) ==
    /\ q.pc = "s_list"
    /\ Move(q, [q EXCEPT !.pc = "s_append", !.l = LoadCommands(q.d)])
    /\ UNCHANGED <<rooms, dicts, lists, hosts, sends, recvs, replies, fresh, idle>>

\* .append(data["command"]); data["command"] raises KeyError when the key is
\* missing, before append is called.  The command appended by Send number k
\* is tagged k, so that occurrences can be told apart.
SendAppend(q) ==
    /\ q.pc = "s_append"
    /\ IF sends[q.id].body = "command"
       THEN /\ lists' = [lists EXCEPT ![q.l] = AppendCmd(@, q.id)]
            /\ sends' = [sends EXCEPT ![q.id].out = "ok"]
            /\ fresh' = [fresh EXCEPT ![q.code] = Append(@, q.id)]
            /\ Touch(q.code)
       ELSE /\ sends' = [sends EXCEPT ![q.id].out = "error"]
            /\ UNCHANGED <<lists, fresh, idle>>
    /\ End(q)
    /\ UNCHANGED <<rooms, dicts, hosts, recvs, replies>>

----
\* GET /receive/<room_code>: the existence check.  The history notes the room
\* object the code was bound to and what that room held (had), the commands
\* whose Send completed since the last Receive on the code started (owed), the
\* Sends in flight on the code
\* (during), and makes this Receive the successor (next) of the Receives on
\* the code that have completed and have none yet.
RecvCheck(r) ==
    /\ IF RoomExists(r)
       THEN /\ recvs' = Append(
                   [j \in DOMAIN recvs |->
                        IF recvs[j].code = r /\ recvs[j].out = "ok" /\ recvs[j].next = 0
                        THEN [recvs[j] EXCEPT !.next = Len(recvs) + 1]
                        ELSE recvs[j]],
                   [code |-> r, room |-> rooms[r], out |-> "pending",
                    res |-> << >>, had |-> Pending(r), owed |-> fresh[r],
                    during |-> {k \in DOMAIN sends :
                                    sends[k].code = r /\ sends[k].out = "pending"},
                    next |-> 0])
            /\ fresh' = [fresh EXCEPT ![r] = << >>]
            /\ reqs' = reqs \cup {Req("recv", Len(recvs) + 1, "r_room", r, 0, 0, 0)}
            /\ UNCHANGED replies
       ELSE /\ Reply("receive", r, "notfound")
            /\ UNCHANGED <<reqs, recvs, fresh>>
    /\ UNCHANGED <<rooms, dicts, lists, hosts, sends, idle>>

\* cmds = rooms[room_code]["commands"]: the first subscript
RecvLoadRoom(q) ==
    /\ q.pc = "r_room"
    /\ Move(q, [q EXCEPT !.pc = "r_list", !.d = LoadRoom(q.code)])
    /\ UNCHANGED <<rooms, dicts, lists, hosts, sends, recvs, replies, fresh, idle>>

\* cmds = rooms[room_code]["commands"]: the second subscript
RecvLoadList(q) ==
    /\ q.pc = "r_list"
    /\ Move(q, [q EXCEPT !.pc = "r_room2", !.l = LoadCommands(q.d)])
    /\ UNCHANGED <<rooms, dicts, lists, hosts, sends, recvs, replies, fresh, idle>>

\* rooms[room_code]["commands"] = []: the load of rooms[room_code]
RecvLoadRoom2(q) ==
    /\ q.pc = "r_room2"
    /\ Move(q, [q EXCEPT !.pc = "r_store", !.d2 = LoadRoom(q.code)])
    /\ UNCHANGED <<rooms, dicts, lists, hosts, sends, recvs, replies, fresh, idle>>

\* rooms[room_code]["commands"] = []: the store of a new list into the dict
RecvStore(q) ==
    /\ q.pc = "r_store"
    /\ lists' = Append(lists, << >>)
    /\ dicts' = [dicts EXCEPT ![q.d2] = Len(lists) + 1]
    /\ Move(q, [q EXCEPT !.pc = "r_json"])
    /\ UNCHANGED <<rooms, hosts, sends, recvs, replies, fresh, idle>>

\* return jsonify({"commands": cmds}): serialises what list cmds holds now
RecvJsonifyRemoves(q) ==
    /\ q.pc = "r_json"
    /\ recvs' = [recvs EXCEPT ![q.id].res = lists[q.l], ![q.id].out = "ok"]
    /\ rooms' = [x \in DOMAIN rooms \ {q.code} |-> rooms[x]]
    /\ Touch(q.code)
    /\ End(q)
    /\ UNCHANGED <<dicts, lists, hosts, sends, replies, fresh>>
RecvJsonifyEmptyIs404(q) ==
    /\ q.pc = "r_json"
    /\ recvs' = [recvs EXCEPT ![q.id].res = lists[q.l],
                              ![q.id].out = IF lists[q.l] = << >> THEN "notfound"
                                                                  ELSE "ok"]
    /\ Touch(q.code)
    /\ End(q)
    /\ UNCHANGED <<rooms, dicts, lists, hosts, sends, replies, fresh>>
RecvJsonify(q) ==
    /\ q.pc = "r_json"
    /\ recvs' = [recvs EXCEPT ![q.id].res = lists[q.l], ![q.id].out = "ok"]
    /\ Touch(q.code)
    /\ End(q)
    /\ UNCHANGED <<rooms, dicts, lists, hosts, sends, replies, fresh>>

----
\* The requests taken so far.
Taken == Len(hosts) + Len(sends) + Len(recvs) + Len(replies)

\* The threaded server can take a request: a thread is free.
Free == Cardinality(reqs) < MaxInFlight /\ Taken < MaxReq

\* The threaded server: a free thread takes a request, and the steps of the
\* handlers in flight interleave freely.
Next ==
    \/ \E c \in Codes : Free /\ HostSession(c)
    \/ \E r \in Codes : Free /\ JoinRoom(r)
    \/ \E r \in Codes, b \in Bodies : Free /\ SendCheck(r, b)
    \/ \E r \in Codes : Free /\ RecvCheck(r)
    \/ \E q \in reqs : SendLoadRoom(q)
    \/ \E q \in reqs : SendLoadList(q)
    \/ \E q \in reqs : SendAppend(q)
    \/ \E q \in reqs : RecvLoadRoom(q)
    \/ \E q \in reqs : RecvLoadList(q)
    \/ \E q \in reqs : RecvLoadRoom2(q)
    \/ \E q \in reqs : RecvStore(q)
    \/ \E q \in reqs : RecvJsonify(q)

Spec == Init /\ [][Next]_vars

\* The server serving one request at a time can take a request: none is in flight.
Idle == reqs = {} /\ Taken < MaxReqSeq

\* The same handlers, each running to its end before the next request is taken.
NextSeq ==
    \/ \E c \in Codes : Idle /\ HostSession(c)
    \/ \E r \in Codes : Idle /\ JoinRoom(r)
    \/ \E r \in Codes, b \in Bodies : Idle /\ SendCheck(r, b)
    \/ \E r \in Codes : Idle /\ RecvCheck(r)
    \/ \E q \in reqs : SendLoadRoom(q)
    \/ \E q \in reqs : SendLoadList(q)
    \/ \E q \in reqs : SendAppend(q)
    \/ \E q \in reqs : RecvLoadRoom(q)
    \/ \E q \in reqs : RecvLoadList(q)
    \/ \E q \in reqs : RecvLoadRoom2(q)
    \/ \E q \in reqs : RecvStore(q)
    \/ \E q \in reqs : RecvJsonify(q)

SpecSeq == Init /\ [][NextSeq]_vars

\* The threaded server with every request naming the same room code.
OneCode == {CHOOSE c \in Codes : TRUE}
FreeOne == Cardinality(reqs) < MaxInFlight /\ Taken < MaxReqOne

NextOne ==
    \/ \E c \in OneCode : FreeOne /\ HostSession(c)
    \/ \E r \in OneCode : FreeOne /\ JoinRoom(r)
    \/ \E r \in OneCode, b \in Bodies : FreeOne /\ SendCheck(r, b)
    \/ \E r \in OneCode : FreeOne /\ RecvCheck(r)
    \/ \E q \in reqs : SendLoadRoom(q)
    \/ \E q \in reqs : SendLoadList(q)
    \/ \E q \in reqs : SendAppend(q)
    \/ \E q \in reqs : RecvLoadRoom(q)
    \/ \E q \in reqs : RecvLoadList(q)
    \/ \E q \in reqs : RecvLoadRoom2(q)
    \/ \E q \in reqs : RecvStore(q)
    \/ \E q \in reqs : RecvJsonify(q)

SpecOne == Init /\ [][NextOne]_vars

\* The clock ticks.  No handler reads a clock and a room holds no timestamp:
\* a tick changes nothing but the idle times, which are counted up to just
\* past the timeout.
Tick ==
    /\ \E r \in DOMAIN rooms : idle[r] <= IdleTimeout
    /\ idle' = [r \in Codes |->
                   IF r \in DOMAIN rooms /\ idle[r] <= IdleTimeout
                   THEN idle[r] + 1 ELSE idle[r]]
    /\ UNCHANGED <<rooms, dicts, lists, reqs, hosts, sends, recvs, replies, fresh>>

\* The threaded server as time passes.
NextTime == Next \/ Tick

SpecTime == Init /\ [][NextTime]_vars

----
\* Vocabulary of the properties.
Hosted == {hosts[i] : i \in DOMAIN hosts}
InSeq(x, s) == \E i \in DOMAIN s : s[i] = x
HostStep == Len(hosts') = Len(hosts) + 1
JoinStep == Len(replies') = Len(replies) + 1 /\ replies'[Len(replies')].op = "join"
SendEnd(k) == sends[k].out = "pending" /\ sends'[k].out # "pending"
RecvEnd(j) == recvs[j].out = "pending" /\ recvs'[j].out # "pending"
SentBefore(k1, k2) == k1 \in sends[k2].prior
StartsAfter(j2, j1) == recvs[j1].next # 0 /\ j2 >= recvs[j1].next
Results == {j \in DOMAIN recvs : recvs[j].out = "ok"}
NotFoundStep ==
    /\ Len(replies') = Len(replies) + 1
    /\ replies'[Len(replies')].op \in {"send", "receive"}
    /\ replies'[Len(replies')].out = "notfound"
HeldList(k) == (CHOOSE q \in reqs : q.op = "send" /\ q.id = k).l

\* C1: no loss under concurrency.  Send k and Receive j ran on the same room
\* and overlapped (k overlapped no other Receive, and the code stayed bound to
\* that room); n is the next Receive on the code, started after j completed,
\* when Send k had completed.  Once all three have completed, command k is in
\* exactly one of the results of j and n.
C1_NoLossUnderConcurrency ==
    \A j \in DOMAIN recvs : \A k \in recvs[j].during :
        LET n == recvs[j].next IN
        ( /\ recvs[j].out = "ok" /\ sends[k].out = "ok"
          /\ n # 0 /\ recvs[n].out = "ok"
          /\ \A i \in DOMAIN recvs \ {j} : k \notin recvs[i].during
          /\ sends[k].room = recvs[j].room /\ recvs[n].room = recvs[j].room
          /\ rooms[recvs[j].code] = recvs[j].room )
        => (InSeq(k, recvs[j].res) # InSeq(k, recvs[n].res))

\* C2: no appended command occurrence is returned by two Receive calls.
C2_DrainsDisjoint ==
    \A i, j \in DOMAIN recvs : \A k \in DOMAIN sends :
        i # j => ~(InSeq(k, recvs[i].res) /\ InSeq(k, recvs[j].res))

\* C3: FIFO and exactly-once drain, requests served one at a time.  A Receive
\* returns exactly the commands sent to its room since the last Receive on the
\* code (or since the room was created), in the order the Sends completed; so a
\* Receive right after a Receive returns the empty sequence.
C3_FifoExactlyOnce ==
    \A j \in DOMAIN recvs :
        LET ToRoom(k) == sends[k].room = recvs[j].room IN
        recvs[j].out = "ok" => recvs[j].res = SelectSeq(recvs[j].owed, ToRoom)

\* Two commands were sent to a room, the next Receive returned both in order,
\* and the Receive after it returned nothing.
C3_Witness ==
    \E j \in DOMAIN recvs :
        /\ recvs[j].out = "ok" /\ Len(recvs[j].res) = 2
        /\ recvs[j].res[1] < recvs[j].res[2]
        /\ recvs[j].next # 0
        /\ recvs[recvs[j].next].out = "ok"
        /\ recvs[recvs[j].next].room = recvs[j].room
        /\ recvs[recvs[j].next].res = << >>

\* C4: the room codes returned by the Host calls are pairwise distinct.
C4_HostCodesDistinct ==
    \A i, j \in DOMAIN hosts : i # j => hosts[i] # hosts[j]

\* C5: a Host call leaves every room that has pending commands as it is: its
\* code stays bound to the same room and its pending sequence is unchanged.
C5_HostKeepsLiveRooms ==
    [][\A r \in DOMAIN rooms :
          (HostStep /\ Pending(r) # << >>) =>
              /\ rooms'[r] = rooms[r]
              /\ PendingIn(rooms', dicts', lists', r) = Pending(r)]_vars

\* C6: not-found correctness.  Every response to a Join, Send or Receive that
\* names a code no Host call has returned is "Room not found": such a request
\* never passes the existence check, and such a Join never succeeds.
C6_NotFoundCorrect ==
    /\ \A i \in DOMAIN replies :
           replies[i].code \notin Hosted => replies[i].out = "notfound"
    /\ \A k \in DOMAIN sends : sends[k].code \in Hosted
    /\ \A j \in DOMAIN recvs : recvs[j].code \in Hosted
    /\ \A q \in reqs : q.code \in Hosted

\* A room exists, and a Join, a Send and a Receive that named a code no Host
\* call has returned were each answered "Room not found".
C6_Witness ==
    /\ hosts # << >>
    /\ \A op \in {"join", "send", "receive"} :
           \E i \in DOMAIN replies :
               /\ replies[i].op = op
               /\ replies[i].code \notin Hosted
               /\ replies[i].out = "notfound"

\* C7: isolation.  Every command in the result of a Receive on a code was sent
\* to that code.
C7_Isolation ==
    \A j \in DOMAIN recvs : \A i \in DOMAIN recvs[j].res :
        sends[recvs[j].res[i]].code = recvs[j].code

\* Two rooms exist, a command was sent to one of them, and a Receive on the
\* other has completed.
C7_Witness ==
    \E k \in DOMAIN sends : \E j \in DOMAIN recvs :
        /\ sends[k].out = "ok"
        /\ recvs[j].out = "ok"
        /\ recvs[j].code # sends[k].code

\* C8: requests served one at a time, in any order.  A command whose Send has
\* completed is in the result of the next Receive on its code.
C8_NextReceiveDelivers ==
    \A j \in DOMAIN recvs :
        recvs[j].out = "ok" =>
            \A i \in DOMAIN recvs[j].owed : InSeq(recvs[j].owed[i], recvs[j].res)

\* C9: a Join answers "joined" exactly when the room exists, and changes
\* neither the set of rooms nor any room's pending commands.
C9_JoinIsPureLookup ==
    [][JoinStep =>
          /\ replies'[Len(replies')].out \in {"joined", "notfound"}
          /\ replies'[Len(replies')].out = "joined"
                 <=> replies'[Len(replies')].code \in DOMAIN rooms
          /\ rooms' = rooms /\ dicts' = dicts /\ lists' = lists]_vars

\* A Join succeeded on a room that holds pending commands, and another Join
\* was answered "Room not found".
C9_Witness ==
    /\ \E i \in DOMAIN replies :
           /\ replies[i].op = "join" /\ replies[i].out = "joined"
           /\ replies[i].code \in DOMAIN rooms
           /\ Pending(replies[i].code) # << >>
    /\ \E i \in DOMAIN replies :
           replies[i].op = "join" /\ replies[i].out = "notfound"

\* C10: every Host call adds exactly one room to the registry, and the code it
\* returns maps to a room with no pending commands.
C10_HostAddsOneRoom ==
    [][HostStep =>
          /\ Cardinality(DOMAIN rooms') = Cardinality(DOMAIN rooms) + 1
          /\ PendingIn(rooms', dicts', lists', hosts'[Len(hosts')]) = << >>]_vars

\* C11: expiry.  A request that names a room idle for longer than the timeout
\* is answered "Room not found": no Join on it succeeds, and no Send or
\* Receive on it passes the existence check.
Expired(r) == r \in DOMAIN rooms /\ idle[r] > IdleTimeout
C11_ExpiredRoomNotFound ==
    [][\A r \in Codes :
          Expired(r) =>
              /\ ~(JoinStep /\ replies'[Len(replies')].code = r
                            /\ replies'[Len(replies')].out # "notfound")
              /\ ~(Len(sends') = Len(sends) + 1 /\ sends'[Len(sends')].code = r)
              /\ ~(Len(recvs') = Len(recvs) + 1 /\ recvs'[Len(recvs')].code = r)]_vars

\* C12: under any interleaving, a Receive on a room whose queue is empty when
\* the Receive starts ends with the success outcome and leaves the code in the
\* registry; when no Send on the code was in flight during the Receive, its
\* result is the empty sequence and the room's queue is empty when it ends.
C12_ReceiveOnEmptyQueue ==
    [][\A j \in DOMAIN recvs :
          (RecvEnd(j) /\ recvs[j].had = << >>) =>
              /\ recvs'[j].out = "ok"
              /\ recvs[j].code \in DOMAIN rooms'
              /\ recvs[j].during = {} =>
                     /\ recvs'[j].res = << >>
                     /\ PendingIn(rooms', dicts', lists', recvs[j].code) = << >>]_vars

\* A Receive on a room with an empty queue has completed; commands are pending
\* in the other room.
C12_Witness ==
    \E j \in DOMAIN recvs :
        /\ recvs[j].out = "ok" /\ recvs[j].had = << >> /\ recvs[j].res = << >>
        /\ recvs[j].during = {}
        /\ \E r \in DOMAIN rooms : r # recvs[j].code /\ Pending(r) # << >>

\* C13: under any interleaving, a Send with a command on an existing room ends
\* with status ok; when the list it took from the room is still the room's
\* queue (no Receive or Host has replaced it since), the room's pending
\* sequence after the Send is the sequence before it with the command appended
\* at the tail.
C13_SendAppendsAtTail ==
    [][\A k \in DOMAIN sends :
          (SendEnd(k) /\ sends[k].body = "command") =>
              /\ sends'[k].out = "ok"
              /\ HeldList(k) = dicts[rooms[sends[k].code]] =>
                     PendingIn(rooms', dicts', lists', sends[k].code)
                         = Append(Pending(sends[k].code), k)]_vars

\* A Send has appended its command behind a command that was already pending.
C13_Witness ==
    \E k \in DOMAIN sends :
        /\ sends[k].out = "ok"
        /\ sends[k].code \in DOMAIN rooms
        /\ Len(Pending(sends[k].code)) >= 2
        /\ Pending(sends[k].code)[Len(Pending(sends[k].code))] = k

\* C14: under any interleaving, when a Send of c1 on a code completed before
\* a Send of c2 on the code started, no Receive result lists c2 before c1, and
\* no Receive that returns c1 starts after a Receive that returned c2 has
\* completed.
C14_ArrivalOrderKept ==
    /\ \A j \in Results : \A a, b \in DOMAIN recvs[j].res :
           a < b => ~SentBefore(recvs[j].res[b], recvs[j].res[a])
    /\ \A j1, j2 \in Results :
           StartsAfter(j2, j1) =>
               \A a \in DOMAIN recvs[j1].res, b \in DOMAIN recvs[j2].res :
                   ~SentBefore(recvs[j2].res[b], recvs[j1].res[a])

\* c1 was sent before c2; a Receive that overlapped the Send of c2 returned c1,
\* and a Receive that started after it had completed returned c2.
C14_Witness ==
    \E j1, j2 \in Results :
        /\ StartsAfter(j2, j1)
        /\ \E a \in DOMAIN recvs[j1].res, b \in DOMAIN recvs[j2].res :
               /\ SentBefore(recvs[j1].res[a], recvs[j2].res[b])
               /\ recvs[j2].res[b] \in recvs[j1].during

\* C15: under any interleaving, a step of a Send or a Receive leaves the set
\* of codes in the registry as it was and changes the pending sequence of no
\* room but the one the request names; a Send or Receive that ends in NotFound
\* changes neither the registry nor any room, so it creates no room.
C15_SingleRoomFrame ==
    [][~HostStep =>
          /\ DOMAIN rooms' = DOMAIN rooms
          /\ \A r \in DOMAIN rooms :
                 PendingIn(rooms', dicts', lists', r) # Pending(r) =>
                     \E q \in reqs \ reqs' : q.code = r
          /\ NotFoundStep =>
                 UNCHANGED <<rooms, dicts, lists, reqs, fresh, idle>>]_vars

\* A Send has put its command in one room while the other room's queue is
\* empty, and a Send or Receive has been answered NotFound.
C15_Witness ==
    /\ \E k \in DOMAIN sends, r \in DOMAIN rooms :
           /\ sends[k].out = "ok"
           /\ InSeq(k, Pending(sends[k].code))
           /\ r # sends[k].code
           /\ Pending(r) = << >>
    /\ \E i \in DOMAIN replies :
           replies[i].op \in {"send", "receive"} /\ replies[i].out = "notfound"

\* C16: a Send whose body has no command field raises nothing inside the
\* handler: on an existing room it does not end in the error outcome and it
\* leaves every list as it was; on an unknown room it is answered NotFound.
C16_NoCommandFieldNotAnError ==
    [][/\ \A k \in DOMAIN sends :
              (SendEnd(k) /\ sends[k].body = "nocommand") =>
                  /\ sends'[k].out # "error"
                  /\ lists' = lists
       /\ \A r \in Codes :
              (/\ ~RoomExists(r)
               /\ Len(replies') = Len(replies) + 1
               /\ replies'[Len(replies')].op = "send"
               /\ replies'[Len(replies')].code = r) =>
                  replies'[Len(replies')].out = "notfound"]_vars

\* C17: under any interleaving, no step removes a code from the registry, and
\* once Host has returned a code, no request on the code is answered NotFound:
\* a Join is answered joined, a Send with a command ends with status ok and a
\* Receive ends with its result.
C17_RoomsNeverRemoved ==
    [][/\ DOMAIN rooms \subseteq DOMAIN rooms'
       /\ Hosted \subseteq DOMAIN rooms
       /\ (/\ Len(replies') = Len(replies) + 1
           /\ replies'[Len(replies')].code \in Hosted) =>
              /\ replies'[Len(replies')].op = "join"
              /\ replies'[Len(replies')].out = "joined"
       /\ \A k \in DOMAIN sends :
              (SendEnd(k) /\ sends[k].body = "command") => sends'[k].out = "ok"
       /\ \A j \in DOMAIN recvs : RecvEnd(j) => recvs'[j].out = "ok"]_vars

\* After Host returned a code, a Join, a Send and a Receive on it have all
\* succeeded.
C17_Witness ==
    \E r \in Hosted :
        /\ \E i \in DOMAIN replies :
               replies[i].code = r /\ replies[i].out = "joined"
        /\ \E k \in DOMAIN sends : sends[k].code = r /\ sends[k].out = "ok"
        /\ \E j \in DOMAIN recvs : recvs[j].code = r /\ recvs[j].out = "ok"

====
